---- MODULE Spec2Model ----
(***************************************************************************)
(* GrantMath Excel add-in (src/addin.js): the task pane's state, its event *)
(* handlers (saveApiKey, updateKeyIndicator, solveCell, the 3-second       *)
(* timers) and the HTML-to-text routine stripHtmlTags.                     *)
(*                                                                         *)
(* A JavaScript string is modelled as a sequence of one-character strings, *)
(* so that trim(), toString(), the template literals and the regular       *)
(* expressions are computed and not assumed.  Server-provided and fixed    *)
(* status messages, which the code only passes on, are TLA+ strings.       *)
(***************************************************************************)
EXTENDS Integers, Sequences, FiniteSets, Bags, TLC

(***************************************************************************)
(* Strings                                                                 *)
(***************************************************************************)
NL == "\n"
TAB == "\t"
\* U+00A0, the character the entity &nbsp; decodes to.
NBSP == "nbsp"
\* U+00E9, the character the entity &eacute; decodes to.
EACUTE == "eacute"

\* The characters String.prototype.trim() and the regex class \s take as
\* white space (those that occur in the model's alphabet).
WhiteSpace == {" ", NL, TAB, NBSP}

\* The characters the regex "." does not match (no "s" flag is given).
LineTerminators == {NL}

UpperToLower ==
    [c \in {"A","B","C","D","E","F","G","H","I","J","K","L","M","N","O","P",
            "Q","R","S","T","U","V","W","X","Y","Z"} |->
       CASE c = "A" -> "a" [] c = "B" -> "b" [] c = "C" -> "c" [] c = "D" -> "d"
         [] c = "E" -> "e" [] c = "F" -> "f" [] c = "G" -> "g" [] c = "H" -> "h"
         [] c = "I" -> "i" [] c = "J" -> "j" [] c = "K" -> "k" [] c = "L" -> "l"
         [] c = "M" -> "m" [] c = "N" -> "n" [] c = "O" -> "o" [] c = "P" -> "p"
         [] c = "Q" -> "q" [] c = "R" -> "r" [] c = "S" -> "s" [] c = "T" -> "t"
         [] c = "U" -> "u" [] c = "V" -> "v" [] c = "W" -> "w" [] c = "X" -> "x"
         [] c = "Y" -> "y" [] c = "Z" -> "z"]

\* Case folding of the regex flag "i".
Lower(c) == IF c \in DOMAIN UpperToLower THEN UpperToLower[c] ELSE c

\* s from index i to its end.
Drop(s, i) == SubSeq(s, i, Len(s))

\* Does the lower-case literal lit occur in s at index i, ignoring case?
StartsWithCI(s, i, lit) ==
    /\ i >= 1
    /\ i + Len(lit) - 1 <= Len(s)
    /\ \A k \in 1..Len(lit) : Lower(s[i + k - 1]) = lit[k]

\* Does the literal lit occur in s at index i, case respected?
StartsWith(s, i, lit) ==
    /\ i >= 1
    /\ i + Len(lit) - 1 <= Len(s)
    /\ \A k \in 1..Len(lit) : s[i + k - 1] = lit[k]

\* The least of a set of indices, 0 if the set is empty: the first place a
\* left-to-right scan stops at.
Leftmost(ks) == IF ks = {} THEN 0 ELSE CHOOSE k \in ks : \A j \in ks : k <= j

\* The least index >= i of s that holds a character of set cs; 0 if none.
FirstIn(s, i, cs) == Leftmost({k \in i..Len(s) : s[k] \in cs})

\* String.prototype.trim()
RECURSIVE TrimLeft(_)
TrimLeft(s) ==
    IF s # <<>> /\ Head(s) \in WhiteSpace THEN TrimLeft(Tail(s)) ELSE s

RECURSIVE TrimRight(_)
TrimRight(s) ==
    IF s # <<>> /\ s[Len(s)] \in WhiteSpace
    THEN TrimRight(SubSeq(s, 1, Len(s) - 1)) ELSE s

Trim(s) == TrimRight(TrimLeft(s))

\* n copies of the character c: String.prototype.repeat
Repeat(c, n) == [k \in 1..n |-> c]

(***************************************************************************)
(* stripHtmlTags: the regular expressions, one rule per replace() call     *)
(***************************************************************************)
LtScript == <<"<","s","c","r","i","p","t">>
EndScript == <<"<","/","s","c","r","i","p","t",">">>
LtStyle == <<"<","s","t","y","l","e">>
EndStyle == <<"<","/","s","t","y","l","e",">">>
LtStrong == <<"<","s","t","r","o","n","g">>
EndStrong == <<"<","/","s","t","r","o","n","g",">">>
LtB == <<"<","b">>
EndB == <<"<","/","b",">">>
LtBr == <<"<","b","r">>
Disclaimer == <<"*","*","D","i","s","c","l","a","i","m","e","r",":","*","*">>
HeadingDigits == {"1","2","3","4","5","6"}
SeparatorLen == 40

\* /<h[1-6]/i at index i
IsHeadingOpen(s, i) ==
    /\ StartsWithCI(s, i, <<"<","h">>)
    /\ i + 2 <= Len(s)
    /\ s[i + 2] \in HeadingDigits

\* /<\/h[1-6]>/i at index i
IsHeadingClose(s, i) ==
    /\ StartsWithCI(s, i, <<"<","/","h">>)
    /\ i + 4 <= Len(s)
    /\ s[i + 3] \in HeadingDigits
    /\ s[i + 4] = ">"

\* "[^>]*>" from index i: the index of the ">" that ends it, 0 if there is
\* none (the class takes line breaks too).
TagEnd(s, i) == FirstIn(s, i, {">"})

\* The rules of the form "<open[^>]*>(.*?)<close>".
ElementRules == {"script", "style", "heading", "strong", "b"}

\* The literal an element rule's opening tag starts with.
OpenTag(rule) ==
    CASE rule = "script" -> LtScript
      [] rule = "style" -> LtStyle
      [] rule = "strong" -> LtStrong
      [] rule = "b" -> LtB

\* The literal that is an element rule's closing tag.
CloseTag(rule) ==
    CASE rule = "script" -> EndScript
      [] rule = "style" -> EndStyle
      [] rule = "strong" -> EndStrong
      [] rule = "b" -> EndB

\* The start of an element rule's opening tag at index i, and its length.
IsOpen(rule, s, i) ==
    IF rule = "heading" THEN IsHeadingOpen(s, i)
    ELSE StartsWithCI(s, i, OpenTag(rule))

OpenLen(rule) == IF rule = "heading" THEN 3 ELSE Len(OpenTag(rule))

\* An element rule's closing tag at index i, and its length.
IsClose(rule, s, i) ==
    IF rule = "heading" THEN IsHeadingClose(s, i)
    ELSE StartsWithCI(s, i, CloseTag(rule))

CloseLen(rule) == IF rule = "heading" THEN 5 ELSE Len(CloseTag(rule))

\* Where a scan for "(.*?)" stops: k is the first index that holds the
\* closing tag or a line terminator, which "." does not take; 0 if none.
LazyStop(s, k) == IF k = 0 \/ s[k] \in LineTerminators THEN 0 ELSE k

\* "(.*?)" from index i followed by the rule's closing tag: the index where
\* the closing tag starts, 0 if a line terminator or the end of the string
\* comes first.
LazyUntil(rule, s, i) ==
    LazyStop(s, Leftmost({k \in i..Len(s) :
                IsClose(rule, s, k) \/ s[k] \in LineTerminators}))

\* A match as [end, from, to]: the match's last index and the bounds of
\* group 1; end = 0 when there is no match.
NoMatch == [end |-> 0, from |-> 1, to |-> 0]

\* The match of an element rule whose opening tag ends at gt and whose
\* closing tag starts at cl, either being 0 if there is none.
ElementMatch(rule, gt, cl) ==
    IF gt = 0 \/ cl = 0 THEN NoMatch
    ELSE [end |-> cl + CloseLen(rule) - 1, from |-> gt + 1, to |-> cl - 1]

ElementFrom(rule, s, gt) ==
    ElementMatch(rule, gt, IF gt = 0 THEN 0 ELSE LazyUntil(rule, s, gt + 1))

\* A match of "<open[^>]*>(.*?)<close>" at index i.
Element(rule, s, i) ==
    IF IsOpen(rule, s, i) THEN ElementFrom(rule, s, TagEnd(s, i + OpenLen(rule)))
    ELSE NoMatch

\* /<\/?name[^>]*>/i at index i: the match's last index, 0 if none.
BoundaryTag(s, i, name) ==
    LET at == IF StartsWithCI(s, i, <<"<","/">> \o name) THEN i + 2 + Len(name)
              ELSE IF StartsWithCI(s, i, <<"<">> \o name) THEN i + 1 + Len(name)
              ELSE 0
    IN  IF at = 0 THEN 0 ELSE TagEnd(s, at)

\* The least index >= i of s that holds a character outside cs;
\* Len(s) + 1 if none.
RECURSIVE SkipWhile(_, _, _)
SkipWhile(s, i, cs) ==
    IF i <= Len(s) /\ s[i] \in cs THEN SkipWhile(s, i + 1, cs) ELSE i

\* /<br\s*\/?>/i at index i: the match's last index, 0 if none.
BrTag(s, i) ==
    IF ~StartsWithCI(s, i, LtBr) THEN 0
    ELSE LET j == SkipWhile(s, i + 3, WhiteSpace)
             k == IF j <= Len(s) /\ s[j] = "/" THEN j + 1 ELSE j
         IN  IF k <= Len(s) /\ s[k] = ">" THEN k ELSE 0

\* /<[^>]+>/ at index i: the match's last index, 0 if none.
AnyTag(s, i) ==
    IF s[i] = "<" /\ i + 1 <= Len(s) /\ s[i + 1] # ">"
    THEN TagEnd(s, i + 2) ELSE 0

\* The last index of the match of a rule without a group at index i, 0 if
\* there is none.
MatchEnd(rule, s, i) ==
    CASE rule = "p" -> BoundaryTag(s, i, <<"p">>)
      [] rule = "div" -> BoundaryTag(s, i, <<"d","i","v">>)
      [] rule = "br" -> BrTag(s, i)
      [] rule = "tag" -> AnyTag(s, i)
      [] rule = "spaces" ->
           IF s[i] = " " THEN SkipWhile(s, i, {" "}) - 1 ELSE 0
      [] rule = "newlines" ->
           IF s[i] = NL /\ i + 1 <= Len(s) /\ s[i + 1] = NL
           THEN SkipWhile(s, i, {NL}) - 1 ELSE 0
      [] rule = "disclaimer" ->
           IF StartsWith(s, i, Disclaimer) THEN i + Len(Disclaimer) - 1 ELSE 0

\* The match of a rule at index i of s.
Match(rule, s, i) ==
    IF rule \in ElementRules THEN Element(rule, s, i)
    ELSE [NoMatch EXCEPT !.end = MatchEnd(rule, s, i)]

\* The replacement string of a rule for match m of s ($1 is group 1).
Replacement(rule, s, m) ==
    CASE rule \in {"script", "style", "tag"} -> <<>>
      [] rule = "heading" ->
           <<NL>> \o SubSeq(s, m.from, m.to) \o <<NL>>
              \o Repeat("=", SeparatorLen) \o <<NL>>
      [] rule \in {"p", "div", "br", "newlines"} -> <<NL>>
      [] rule \in {"strong", "b"} ->
           <<"*","*">> \o SubSeq(s, m.from, m.to) \o <<"*","*">>
      [] rule = "spaces" -> <<" ">>
      [] rule = "disclaimer" -> <<NL>> \o Disclaimer

\* String.prototype.replace with a global regex: matches are taken left to
\* right, each search resuming after the previous match.
RECURSIVE ReplaceFrom(_, _, _)
\* The replacement of match m and of the matches after it.
ReplaceMatch(rule, s, m) ==
    Replacement(rule, s, m) \o ReplaceFrom(rule, s, m.end + 1)

\* k is the index of the first match at or after index i, 0 if there is none.
ReplaceAt(rule, s, i, k) ==
    IF k = 0 THEN Drop(s, i)
    ELSE SubSeq(s, i, k - 1) \o ReplaceMatch(rule, s, Match(rule, s, k))

ReplaceFrom(rule, s, i) ==
    ReplaceAt(rule, s, i,
              Leftmost({k \in i..Len(s) : Match(rule, s, k).end # 0}))

ReplaceAll(rule, s) == ReplaceFrom(rule, s, 1)

\* The character references the model's alphabet can spell, each with the
\* character it stands for.  All of them are among those HTML also accepts
\* without the closing semicolon.
Entities ==
    { [name |-> <<"a","m","p">>, ch |-> "&"],
      [name |-> <<"l","t">>, ch |-> "<"],
      [name |-> <<"g","t">>, ch |-> ">"],
      [name |-> <<"n","b","s","p">>, ch |-> NBSP],
      [name |-> <<"e","a","c","u","t","e">>, ch |-> EACUTE] }

\* textarea.innerHTML = text; text = textarea.value: the text is parsed as
\* the contents of a textarea, where only character references are decoded.
\* The references that start at index i of s, and the index after the
\* reference e that starts at index i: its semicolon is optional.
EntitiesAt(s, i) ==
    {e \in Entities : s[i] = "&" /\ StartsWith(s, i + 1, e.name)}

AfterEntity(s, j) == IF j <= Len(s) /\ s[j] = ";" THEN j + 1 ELSE j

RECURSIVE DecodeFrom(_, _)
\* The character of reference e at index k, and the text after it decoded.
DecodeEntity(s, k, e) ==
    <<e.ch>> \o DecodeFrom(s, AfterEntity(s, k + 1 + Len(e.name)))

\* k is the index of the first reference at or after index i, 0 if none.
DecodeAt(s, i, k) ==
    IF k = 0 THEN Drop(s, i)
    ELSE SubSeq(s, i, k - 1)
            \o DecodeEntity(s, k, CHOOSE e \in EntitiesAt(s, k) : TRUE)

DecodeFrom(s, i) ==
    DecodeAt(s, i, Leftmost({k \in i..Len(s) : EntitiesAt(s, k) # {}}))

DecodeEntities(s) == DecodeFrom(s, 1)

\* String.prototype.split("\n")
RECURSIVE SplitLines(_)
SplitLines(s) ==
    LET k == FirstIn(s, 1, {NL})
    IN  IF k = 0 THEN <<s>>
        ELSE <<SubSeq(s, 1, k - 1)>> \o SplitLines(Drop(s, k + 1))

\* Array.prototype.join("\n")
RECURSIVE JoinLines(_)
JoinLines(ls) ==
    IF ls = <<>> THEN <<>>
    ELSE IF Len(ls) = 1 THEN ls[1]
    ELSE ls[1] \o <<NL>> \o JoinLines(Tail(ls))

\* text.split("\n").map(line => line.trim()).filter(line => line.length > 0)
\*     .join("\n")
TrimLines(s) ==
    LET ls == SplitLines(s)
        trimmed == [k \in 1..Len(ls) |-> Trim(ls[k])]
    IN  JoinLines(SelectSeq(trimmed, LAMBDA l : Len(l) > 0))

\* The order of the replace() calls of stripHtmlTags before the entities are
\* decoded, and after.
TagRules == <<"script", "style", "heading", "p", "div", "br", "strong", "b", "tag">>
SpaceRules == <<"spaces", "newlines">>

RECURSIVE ApplyRules(_, _)
ApplyRules(rules, s) ==
    IF rules = <<>> THEN s
    ELSE ApplyRules(Tail(rules), ReplaceAll(Head(rules), s))

stripHtmlTags(html) ==
    IF html = <<>> THEN <<>>
    ELSE LET tagless == ApplyRules(TagRules, html)
             decoded == DecodeEntities(tagless)
             spaced == ApplyRules(SpaceRules, decoded)
             lines == TrimLines(spaced)
         IN  Trim(ReplaceAll("disclaimer", lines))

(***************************************************************************)
(* Values                                                                  *)
(***************************************************************************)
\* An optional value: a field of a JSON object that may be missing, or what
\* localStorage.getItem returns (null, or the string stored).
None == [has |-> FALSE, v |-> <<>>]
Some(x) == [has |-> TRUE, v |-> x]

\* JavaScript truthiness of an optional string: present and not "".
Truthy(o) == o.has /\ o.v # <<>>

\* a || b for an optional string a and a string b
OrElse(o, b) == IF Truthy(o) THEN o.v ELSE b

\* A cell value as range.values[0][0] gives it: a string or a number.
StrValue(str) == [t |-> "str", s |-> str, n |-> 0]
NumValue(num) == [t |-> "num", s |-> <<>>, n |-> num]

DigitChar(d) ==
    CASE d = 0 -> "0" [] d = 1 -> "1" [] d = 2 -> "2" [] d = 3 -> "3"
      [] d = 4 -> "4" [] d = 5 -> "5" [] d = 6 -> "6" [] d = 7 -> "7"
      [] d = 8 -> "8" [] d = 9 -> "9"

\* The decimal digits of a natural number: Number.prototype.toString and the
\* number in a template literal.
RECURSIVE Digits(_)
Digits(n) ==
    IF n < 10 THEN <<DigitChar(n)>>
    ELSE Digits(n \div 10) \o <<DigitChar(n % 10)>>

\* question.toString()
toString(val) == IF val.t = "str" THEN val.s ELSE Digits(val.n)

\* !question
Falsy(val) == IF val.t = "str" THEN val.s = <<>> ELSE val.n = 0

(***************************************************************************)
(* The fixed texts of src/addin.js.  A status message is a sequence of     *)
(* pieces, "" being the empty sequence.                                    *)
(***************************************************************************)
MsgEnterKey == <<"Please enter an API key">>
MsgKeySaved == <<"API key saved successfully">>
MsgEmptyCell == <<"Selected cell is empty. Please select a cell with a question.">>
MsgLoading == <<"Computing solution...">>
MsgUnauthorized == <<"Invalid API key. Please check your API key.">>
MsgRateLimited == <<"Rate limit exceeded. Please wait or upgrade to Pro tier.">>
MsgBadRequest == <<"Invalid question format">>
MsgUnknown == <<"Unknown error occurred">>
MsgSuccess == <<"Solution computed successfully!">>
MsgFallback == <<"Failed to compute solution. Please contact support@solonai.com">>
NoAnswerReturned ==
    <<"N","o"," ","a","n","s","w","e","r"," ","r","e","t","u","r","n","e","d">>
BearerPrefix == <<"B","e","a","r","e","r"," ">>

\* `API error: ${response.status} ${response.statusText}`
MsgApiError(status, statusText) ==
    <<"API error: ">> \o Digits(status) \o <<" ">> \o statusText

\* The message of the TypeError a property read of null throws.
MsgNullRead == <<"Cannot read properties of null">>

(***************************************************************************)
(* The environment: what the host, the user and the service may provide    *)
(***************************************************************************)
\* The most callbacks that are pending at once: invocations of solveCell
\* under way and 3-second timers not yet fired.
MaxPending == 2

KeyK == <<"k">>
KeyJ == <<"j">>

\* What the user may type into the API key field.
KeyInputs == { <<>>, <<" ">>, <<" ","k">>, <<"j">> }

\* What localStorage may hold when the task pane opens: nothing, or a key
\* an earlier session saved.
StoredKeys == { None, Some(KeyK), Some(KeyJ) }

\* The message of an error the host or the network rejects with; it may be
\* empty.
HostErrors == { <<>>, <<"The operation failed">> }
\* The message of the SyntaxError response.json() rejects with.
ParseErrors == { <<"Unexpected token < in JSON at position 0">> }

Response(code, text) == [status |-> code, statusText |-> text]

\* A parsed JSON body: an object with optional fields, or null.
JsonObject(success, error, analysis, formatted) ==
    [kind |-> "object", success |-> success, error |-> error,
     analysis |-> analysis, formatted_answer |-> formatted]
JsonNull == [JsonObject("absent", None, None, None) EXCEPT !.kind = "null"]

HtmlHi == <<"<","p",">","H","i","<","/","p",">">>
PlainX == <<"x">>

\* The inputs of the interleaving model: few data, every kind of outcome.
EnvUI ==
    [cells |-> { StrValue(<<>>), StrValue(<<" ">>), StrValue(<<"a">>) },
     errors |-> HostErrors,
     parseErrors |-> ParseErrors,
     responses |-> { Response(200, <<"OK">>), Response(400, <<"Bad Request">>),
                     Response(401, <<"Unauthorized">>),
                     Response(500, <<"Internal Server Error">>) },
     bodies |-> { JsonObject("true", None, Some(HtmlHi), None),
                  JsonObject("false", Some(<<"oops">>), None, None) }]

\* The inputs of the service-contract model: every shape of cell value,
\* response and body the code tells apart.
EnvService ==
    [cells |-> { StrValue(<<>>), StrValue(<<" ">>), StrValue(<<" ", TAB>>),
                 StrValue(<<"a">>), StrValue(<<"a"," ","b">>),
                 StrValue(<<" ","a">>), NumValue(0), NumValue(42) },
     errors |-> HostErrors,
     parseErrors |-> ParseErrors,
     responses |-> { Response(200, <<"OK">>), Response(201, <<"Created">>),
                     Response(299, <<>>), Response(300, <<"Multiple Choices">>),
                     Response(400, <<"Bad Request">>),
                     Response(401, <<"Unauthorized">>),
                     Response(404, <<"Not Found">>),
                     Response(429, <<"Too Many Requests">>),
                     Response(500, <<"Internal Server Error">>),
                     Response(503, <<>>) },
     bodies |->
        { JsonObject("true", None, a, f) :
            a \in { None, Some(<<>>), Some(HtmlHi) },
            f \in { None, Some(<<>>), Some(PlainX) } }
        \cup
        { JsonObject(ok, e, a, None) :
            ok \in { "false", "absent" },
            e \in { None, Some(<<>>), Some(<<"oops">>) },
            a \in { None, Some(HtmlHi) } }
        \cup
        { JsonObject("true", Some(<<"oops">>), Some(HtmlHi), Some(PlainX)),
          JsonNull }]

\* The most fragments an answer of the service is made of.
MaxTokens == 3

\* The fragments an answer is made of: script and style tags, text on one
\* line and on two, character references (and the tail of one, which "&amp;"
\* completes), emphasis tags and a tag whose name starts with "b", heading
\* tags, a space, and the disclaimer marker.
HtmlTokens ==
    { LtScript \o <<">">>, EndScript, LtStyle \o <<">">>, EndStyle,
      <<"v">>, <<"v", NL, "v">>,
      <<"&","a","m","p",";">>, <<"&","l","t",";">>, <<"&","g","t",";">>,
      <<"l","t",";">>,
      LtB \o <<">">>, EndB, LtStrong \o <<">">>, EndStrong,
      <<"<","b","o","d","y",">">>,
      <<"<","h","1",">">>, <<"<","/","h","2",">">>,
      <<" ">>, Disclaimer }

\* The strings of at most n fragments.
RECURSIVE HtmlTexts(_)
HtmlTexts(n) ==
    IF n = 0 THEN { <<>> }
    ELSE HtmlTexts(n - 1)
            \cup { t \o tok : t \in HtmlTexts(n - 1), tok \in HtmlTokens }

\* The inputs of the answer model: one question, one ok and one 400
\* response, and every answer of at most MaxTokens fragments as the
\* analysis of a successful body.
EnvHtml ==
    [cells |-> { StrValue(<<"a">>) },
     errors |-> { <<"The operation failed">> },
     parseErrors |-> ParseErrors,
     responses |-> { Response(200, <<"OK">>), Response(400, <<"Bad Request">>) },
     bodies |-> { JsonObject("true", None, Some(h), None) :
                    h \in HtmlTexts(MaxTokens) }]

(***************************************************************************)
(* State                                                                   *)
(***************************************************************************)
VARIABLES
    storedKey,      \* localStorage.getItem("grantmath_api_key")
    keyInput,       \* document.getElementById("api-key").value
    indicator,      \* key-indicator carries the class "active"
    solveDisabled,  \* document.getElementById("solve-btn").disabled
    status,         \* the status element: textContent, className, display
    timers,         \* the pending setTimeout callbacks, by kind
    calls,          \* the invocations of solveCell under way, a bag of their
                    \* positions and locals
    ev              \* the step of solveCell just taken, with what it was given

vars == <<storedKey, keyInput, indicator, solveDisabled, status, timers, calls, ev>>

\* An invocation as it starts.  requests and bodyReads record what the
\* invocation has asked of the network so far, startKey what was stored
\* when it started.
NewCall ==
    [pc |-> "start", apiKey |-> <<>>, startKey |-> None,
     question |-> StrValue(<<>>), response |-> Response(0, <<>>),
     answer |-> <<>>, requests |-> <<>>, bodyReads |-> 0]

\* No step of solveCell was just taken.
NoEv ==
    [op |-> "none", ended |-> FALSE, rec |-> NewCall,
     cell |-> StrValue(<<>>), body |-> JsonNull, err |-> <<>>,
     raw |-> <<>>, written |-> None, shown |-> "none"]

(***************************************************************************)
(* The status element and the key field                                    *)
(***************************************************************************)
\* showStatus(message, type)
showStatus(message, type) ==
    [textContent |-> message, className |-> type, display |-> "block"]

\* hideStatus()
hideStatus(st) == [st EXCEPT !.display = "none"]

\* updateKeyIndicator(): the indicator is active iff the trimmed field is
\* not empty.
KeyIndicatorActive(field) == Trim(field) # <<>>

\* updateSolveButtonState(): the value given to solve-btn.disabled.
updateSolveButtonState == FALSE

\* No step of solveCell is taken.
Untouched == ev' = NoEv

\* The task pane as Office.onReady leaves it: loadApiKey() copies a stored
\* key into the field and updates the indicator; the solve button is enabled.
Init ==
    /\ storedKey \in StoredKeys
    /\ keyInput = (IF Truthy(storedKey) THEN storedKey.v ELSE <<>>)
    /\ indicator = (Truthy(storedKey) /\ KeyIndicatorActive(storedKey.v))
    /\ solveDisabled = updateSolveButtonState
    /\ status = [textContent |-> <<>>, className |-> "", display |-> "none"]
    /\ timers = [hide |-> 0, solve |-> 0]
    /\ calls = EmptyBag
    /\ ev = NoEv

\* One more callback may be pending.
Room == BagCardinality(calls) + timers.hide + timers.solve < MaxPending

\* The user types into the API key field: the "input" listener runs
\* updateKeyIndicator.
KeyInputEvent(text) ==
    /\ keyInput' = text
    /\ indicator' = KeyIndicatorActive(text)
    /\ solveDisabled' = updateSolveButtonState
    /\ Untouched
    /\ UNCHANGED <<storedKey, status, timers, calls>>

\* saveApiKey(), blank field.
SaveApiKeyBlank ==
    /\ Trim(keyInput) = <<>>
    /\ status' = showStatus(MsgEnterKey, "error")
    /\ Untouched
    /\ UNCHANGED <<storedKey, keyInput, indicator, solveDisabled, timers, calls>>

\* saveApiKey() storing the field as it is, the test alone being trimmed.
SaveApiKeyStoreUntrimmed ==
    /\ Trim(keyInput) # <<>>
    /\ Room
    /\ storedKey' = Some(keyInput)
    /\ indicator' = KeyIndicatorActive(keyInput)
    /\ solveDisabled' = updateSolveButtonState
    /\ status' = showStatus(MsgKeySaved, "success")
    /\ timers' = [timers EXCEPT !.hide = @ + 1]
    /\ Untouched
    /\ UNCHANGED <<keyInput, calls>>

\* saveApiKey(), a key in the field.
SaveApiKeyStore ==
    /\ Trim(keyInput) # <<>>
    /\ Room
    /\ storedKey' = Some(Trim(keyInput))
    /\ indicator' = KeyIndicatorActive(keyInput)
    /\ solveDisabled' = updateSolveButtonState
    /\ status' = showStatus(MsgKeySaved, "success")
    /\ timers' = [timers EXCEPT !.hide = @ + 1]
    /\ Untouched
    /\ UNCHANGED <<keyInput, calls>>

\* The timer saveApiKey set fires: hideStatus().
HideTimerFire ==
    /\ timers.hide > 0
    /\ timers' = [timers EXCEPT !.hide = @ - 1]
    /\ status' = hideStatus(status)
    /\ Untouched
    /\ UNCHANGED <<storedKey, keyInput, indicator, solveDisabled, calls>>

\* The timer a successful solveCell set fires: the button is enabled and the
\* status hidden.
SolveTimerFire ==
    /\ timers.solve > 0
    /\ timers' = [timers EXCEPT !.solve = @ - 1]
    /\ solveDisabled' = FALSE
    /\ status' = hideStatus(status)
    /\ Untouched
    /\ UNCHANGED <<storedKey, keyInput, indicator, calls>>

(***************************************************************************)
(* solveCell                                                               *)
(***************************************************************************)
\* The emptiness test without the trim().
IsEmptyQuestionNoTrim(val) == Falsy(val)

\* !question || question.toString().trim() === ""
IsEmptyQuestion(val) == Falsy(val) \/ Trim(toString(val)) = <<>>

\* The headers with Authorization added whether or not there is a key.
HeadersAlwaysAuthorized(apiKey) ==
    [contentType |-> <<"application/json">>,
     authorization |-> Some(BearerPrefix \o apiKey)]

\* The headers object: Content-Type always, Authorization if apiKey is
\* truthy.
Headers(apiKey) ==
    [contentType |-> <<"application/json">>,
     authorization |-> IF apiKey # <<>> THEN Some(BearerPrefix \o apiKey) ELSE None]

\* JSON.stringify({question: question.toString()}), as the object it spells.
RequestBody(val) == [question |-> toString(val)]

Request(apiKey, val) ==
    [method |-> "POST", headers |-> Headers(apiKey), body |-> RequestBody(val)]

\* localStorage.getItem("grantmath_api_key") || ""
ReadApiKey(stored) == OrElse(stored, <<>>)

\* Every status below 400 taken as ok.
ResponseOkBelow400(resp) == resp.status >= 200 /\ resp.status < 400

\* response.ok
ResponseOk(resp) == resp.status >= 200 /\ resp.status <= 299

\* The answer with formatted_answer preferred to analysis.
RawAnswerFormattedFirst(body) ==
    OrElse(body.formatted_answer, OrElse(body.analysis, NoAnswerReturned))

\* result.analysis || result.formatted_answer || "No answer returned"
RawAnswer(body) ==
    OrElse(body.analysis, OrElse(body.formatted_answer, NoAnswerReturned))

\* errorData.error || "Invalid question format"
BadRequestMessage(body) == OrElse(body.error, MsgBadRequest)

\* The error field shown as it is, without the fallback.
ApplicationErrorMessageNoFallback(body) == body.error.v

\* result.error || "Unknown error occurred"
ApplicationErrorMessage(body) == OrElse(body.error, MsgUnknown)

\* The message thrown for a response that is not ok and whose body is not
\* read: 401, 429, and any status but 400.
HttpErrorMessage(resp) ==
    IF resp.status = 401 THEN MsgUnauthorized
    ELSE IF resp.status = 429 THEN MsgRateLimited
    ELSE MsgApiError(resp.status, resp.statusText)

\* The write queued on the cell one column to the right of the selection.
OutputWrite(answer) ==
    [rowOffset |-> 0, columnOffset |-> 1, values |-> answer,
     fontColor |-> "#166534", wrapText |-> TRUE, verticalAlignment |-> "Top"]

Step(op, rec) == [NoEv EXCEPT !.op = op, !.rec = rec]

\* The invocations under way that wait at position pc.
Waiting(pc) == {c \in BagToSet(calls) : c.pc = pc}

\* The invocation c goes on as rec: it waits at its next await.
Continue(c, rec, label) ==
    /\ calls' = (calls (-) SetToBag({c})) (+) SetToBag({rec})
    /\ ev' = [label EXCEPT !.rec = rec]

\* The invocation c shows its outcome and stays under way.
FinishKept(c, label, shown) ==
    /\ calls' = calls
    /\ ev' = [label EXCEPT !.ended = TRUE, !.shown = shown]

\* The invocation c is over.
Finish(c, label, shown) ==
    /\ calls' = calls (-) SetToBag({c})
    /\ ev' = [label EXCEPT !.ended = TRUE, !.shown = shown]

\* The catch block showing error.message as it is, without the fallback.
CatchNoFallback(c, e, label) ==
    /\ status' = showStatus(e, "error")
    /\ solveDisabled' = FALSE
    /\ Finish(c, label, "error")
    /\ UNCHANGED <<storedKey, keyInput, indicator, timers>>

\* The catch block: an error thrown in the batch, or a rejected await,
\* carrying message e.
Catch(c, e, label) ==
    /\ status' = showStatus(IF e # <<>> THEN e ELSE MsgFallback, "error")
    /\ solveDisabled' = FALSE
    /\ Finish(c, label, "error")
    /\ UNCHANGED <<storedKey, keyInput, indicator, timers>>

\* A click on the solve button, which the browser delivers when the button
\* is not disabled: the key is read, Excel.run starts the batch, the batch
\* waits for the first context.sync().
SolveClick(limit) ==
    /\ ~solveDisabled
    /\ BagCardinality(calls) < limit
    /\ Room
    /\ LET rec == [NewCall EXCEPT !.pc = "read",
                                  !.apiKey = ReadApiKey(storedKey),
                                  !.startKey = storedKey]
       IN  /\ calls' = calls (+) SetToBag({rec})
           /\ ev' = Step("click", rec)
    /\ UNCHANGED <<storedKey, keyInput, indicator, solveDisabled, status, timers>>

\* The first context.sync() resolves with the selected cell's value: the
\* invocation ends on an empty question, or shows "loading", disables the
\* button and sends the request.
ReadResolve(val) ==
    \E c \in Waiting("read") :
        /\ LET rec == [c EXCEPT !.question = val]
               label == [Step("read", rec) EXCEPT !.cell = val]
           IN  IF IsEmptyQuestion(val)
               THEN /\ status' = showStatus(MsgEmptyCell, "error")
                    /\ Finish(c, label, "error")
                    /\ UNCHANGED solveDisabled
               ELSE /\ status' = showStatus(MsgLoading, "loading")
                    /\ solveDisabled' = TRUE
                    /\ Continue(c, [rec EXCEPT !.pc = "fetch",
                                      !.requests = Append(@, Request(rec.apiKey, val))],
                                label)
        /\ UNCHANGED <<storedKey, keyInput, indicator, timers>>

\* Excel.run or the first context.sync() rejects.
ReadReject(e) ==
    \E c \in Waiting("read") :
        /\ Catch(c, e, [Step("readFailed", c) EXCEPT !.err = e])

\* fetch resolves with a response: not ok and not 400 throws at once, 400
\* and ok go on to read the body.
FetchResolve(resp) ==
    \E c \in Waiting("fetch") :
        /\ LET rec == [c EXCEPT !.response = resp]
               label == Step("response", rec)
           IN  IF ~ResponseOk(resp) /\ resp.status # 400
               THEN Catch(c, HttpErrorMessage(resp), label)
               ELSE /\ Continue(c, [rec EXCEPT !.pc = "json", !.bodyReads = @ + 1], label)
                    /\ UNCHANGED <<storedKey, keyInput, indicator, solveDisabled,
                                   status, timers>>

\* fetch rejects and the request is sent again.
FetchRejectRetry(e) ==
    \E c \in Waiting("fetch") :
        /\ LET rec == [c EXCEPT
                          !.requests = Append(@, Request(c.apiKey, c.question))]
           IN  Continue(c, rec, [Step("fetchFailed", rec) EXCEPT !.err = e])
        /\ UNCHANGED <<storedKey, keyInput, indicator, solveDisabled, status, timers>>

\* fetch rejects: the request could not be made or answered.
FetchReject(e) ==
    \E c \in Waiting("fetch") :
        /\ Catch(c, e, [Step("fetchFailed", c) EXCEPT !.err = e])

\* response.json() resolves for a 400 response.
BadRequestBody(body) ==
    \E c \in Waiting("json") :
        /\ ~ResponseOk(c.response)
        /\ LET label == [Step("badRequest", c) EXCEPT !.body = body]
           IN  Catch(c, IF body.kind = "null" THEN MsgNullRead
                        ELSE BadRequestMessage(body), label)

\* response.json() resolves for an ok response: null throws on the read of
\* success; success falsy shows the error and enables the button; otherwise
\* the answer is queued for the cell to the right and the batch waits for
\* the second context.sync().
ResultBody(body) ==
    \E c \in Waiting("json") :
        /\ ResponseOk(c.response)
        /\ LET label == [Step("result", c) EXCEPT !.body = body]
           IN  IF body.kind = "null"
               THEN Catch(c, MsgNullRead, label)
               ELSE IF body.success # "true"
               THEN /\ status' = showStatus(ApplicationErrorMessage(body), "error")
                    /\ solveDisabled' = FALSE
                    /\ Finish(c, label, "error")
                    /\ UNCHANGED <<storedKey, keyInput, indicator, timers>>
               ELSE /\ Continue(c, [c EXCEPT !.pc = "write",
                                       !.answer = stripHtmlTags(RawAnswer(body))],
                                [label EXCEPT !.raw = RawAnswer(body)])
                    /\ UNCHANGED <<storedKey, keyInput, indicator, solveDisabled,
                                   status, timers>>

\* response.json() rejects: the body is not JSON, or could not be read.
BodyReject(e) ==
    \E c \in Waiting("json") :
        /\ Catch(c, e, [Step("bodyFailed", c) EXCEPT !.err = e])

\* The second context.sync() resolves: the cell is written, "success" is
\* shown and the 3-second timer set.
WriteResolve ==
    \E c \in Waiting("write") :
        /\ status' = showStatus(MsgSuccess, "success")
        /\ timers' = [timers EXCEPT !.solve = @ + 1]
        /\ Finish(c, [Step("written", c) EXCEPT
                         !.written = Some(OutputWrite(c.answer))], "success")
        /\ UNCHANGED <<storedKey, keyInput, indicator, solveDisabled>>

\* The second context.sync() rejecting after the cell was written.
WriteRejectWritten(e) ==
    \E c \in Waiting("write") :
        /\ Catch(c, e, [Step("writeFailed", c) EXCEPT
                           !.err = e, !.written = Some(OutputWrite(c.answer))])

\* The second context.sync() rejects: nothing is written.
WriteReject(e) ==
    \E c \in Waiting("write") :
        /\ Catch(c, e, [Step("writeFailed", c) EXCEPT !.err = e])

(***************************************************************************)
(* Specifications                                                          *)
(***************************************************************************)
\* The steps of solveCell under the inputs env, at most limit invocations
\* under way at once.
SolveNext(limit, env) ==
    \/ SolveClick(limit)
    \/ \E val \in env.cells : ReadResolve(val)
    \/ \E e \in env.errors : ReadReject(e)
    \/ \E resp \in env.responses : FetchResolve(resp)
    \/ \E e \in env.errors : FetchReject(e)
    \/ /\ Waiting("json") # {}
       /\ \E body \in env.bodies : BadRequestBody(body)
    \/ /\ Waiting("json") # {}
       /\ \E body \in env.bodies : ResultBody(body)
    \/ \E e \in env.parseErrors : BodyReject(e)
    \/ WriteResolve
    \/ \E e \in env.errors : WriteReject(e)

\* The task pane with every handler, invocations of solveCell overlapping
\* as the clicks allow.
Next ==
    \/ \E text \in KeyInputs : KeyInputEvent(text)
    \/ SaveApiKeyBlank
    \/ SaveApiKeyStore
    \/ HideTimerFire
    \/ SolveTimerFire
    \/ SolveNext(MaxPending, EnvUI)

Spec == Init /\ [][Next]_vars

\* One invocation of solveCell at a time, on every input of EnvService; the
\* key is the one stored when the pane opened.
ServiceNext ==
    \/ SolveTimerFire
    \/ SolveNext(1, EnvService)

SpecService == Init /\ [][ServiceNext]_vars

\* One invocation of solveCell at a time, on every answer of EnvHtml:
\* stripHtmlTags is applied to what the service returns.
AnswerNext ==
    \/ SolveTimerFire
    \/ SolveNext(1, EnvHtml)

SpecAnswer == Init /\ [][AnswerNext]_vars

\* A pending operation of the host or of the network completes: the await
\* an invocation waits at resolves or rejects.
Completes(env) ==
    \/ \E val \in env.cells : ReadResolve(val)
    \/ \E e \in env.errors : ReadReject(e)
    \/ \E resp \in env.responses : FetchResolve(resp)
    \/ \E e \in env.errors : FetchReject(e)
    \/ \E body \in env.bodies : BadRequestBody(body)
    \/ \E body \in env.bodies : ResultBody(body)
    \/ \E e \in env.parseErrors : BodyReject(e)
    \/ WriteResolve
    \/ \E e \in env.errors : WriteReject(e)

\* SpecService where no await stays pending for ever: the host and the
\* network answer, with a result or with an error.
SpecServiceLive == SpecService /\ WF_vars(Completes(EnvService))

(***************************************************************************)
(* Properties                                                              *)
(***************************************************************************)
\* The invocations that have a request under way: sent, and the response or
\* its body not yet in.
InFlight == Waiting("fetch") \cup Waiting("json")

\* The invocations between "loading" and their end.
Loading == InFlight \cup Waiting("write")

\* The status element shows message as an error.
ShowsError(message) ==
    /\ status.className = "error"
    /\ status.display = "block"
    /\ status.textContent = message

IsBlank(str) == \A k \in 1..Len(str) : str[k] \in WhiteSpace

\* C1: a step of solveCell that reads a question that is the empty string
\* or only white space ends the invocation with the "empty cell" error
\* shown, no request sent, no body read and nothing written, whatever else
\* is going on in the task pane.
C1_EmptyQuestionEndsCall ==
    (ev.op = "read" /\ ev.cell.t = "str" /\ IsBlank(ev.cell.s)) =>
        /\ ev.ended
        /\ ShowsError(MsgEmptyCell)
        /\ ev.rec.requests = <<>>
        /\ ev.rec.bodyReads = 0
        /\ ~ev.written.has

\* A white-space question ends an invocation while another invocation has
\* its request under way.
C1_Witness ==
    /\ ev.op = "read" /\ ev.cell = StrValue(<<" ">>) /\ ev.ended
    /\ InFlight # {}

\* What C2 asks of an invocation that has read its question.
OneRequestCarrying(rec) ==
    (rec.question.t = "str" /\ rec.question.s # <<>>
        /\ Trim(rec.question.s) = rec.question.s) =>
        /\ Len(rec.requests) = 1
        /\ rec.requests[1].method = "POST"
        /\ rec.requests[1].body.question = rec.question.s

\* C2: an invocation whose question is a non-empty trimmed string has sent
\* exactly one request, a POST whose body carries that string as question,
\* from the moment it is sent to the invocation's end, whatever the response
\* or the failure.
C2_ExactlyOneRequest ==
    /\ \A c \in Loading : OneRequestCarrying(c)
    /\ (ev.op \notin {"none", "click", "readFailed"}) => OneRequestCarrying(ev.rec)

\* An invocation with the question "a b" ends on a rejected fetch, one
\* request sent.
C2_Witness ==
    /\ ev.op = "fetchFailed" /\ ev.ended
    /\ ev.rec.question = StrValue(<<"a"," ","b">>)
    /\ Len(ev.rec.requests) = 1

\* C3: a 400 response shows the body's error field when the body is JSON
\* with a non-empty error, and "Invalid question format" when the field is
\* absent and when the body is not JSON.
C3_BadRequestMessage ==
    (ev.op \in {"badRequest", "bodyFailed"} /\ ev.rec.response.status = 400) =>
        ShowsError(IF ev.op = "badRequest" /\ ev.body.error.has
                        /\ ev.body.error.v # <<>>
                   THEN ev.body.error.v
                   ELSE MsgBadRequest)

\* C4: a response outside 200..299 other than 400 ends the invocation at
\* once, its body never read: 401 shows the "invalid key" message, 429 the
\* "rate limit" message, any other status "API error: <status> <text>".
C4_StatusAlone ==
    (ev.op = "response"
        /\ (ev.rec.response.status < 200 \/ ev.rec.response.status > 299)
        /\ ev.rec.response.status # 400) =>
        /\ ev.ended
        /\ ev.rec.bodyReads = 0
        /\ ShowsError(IF ev.rec.response.status = 401 THEN MsgUnauthorized
                      ELSE IF ev.rec.response.status = 429 THEN MsgRateLimited
                      ELSE <<"API error: ">> \o Digits(ev.rec.response.status)
                               \o <<" ">> \o ev.rec.response.statusText)

\* A 503 response with an empty status text ends the invocation.
C4_Witness ==
    /\ ev.op = "response" /\ ev.ended
    /\ ev.rec.response = Response(503, <<>>)
    /\ ShowsError(<<"API error: ", "5", "0", "3", " ">>)

\* An ok response's body is an object with success true.
SuccessBody == ev.op = "result" /\ ev.body.kind = "object" /\ ev.body.success = "true"

\* C5 as stated: the raw answer is analysis if the field is present,
\* otherwise formatted_answer if present, otherwise "No answer returned".
C5_PresentFieldChosen ==
    SuccessBody =>
        ev.raw = (IF ev.body.analysis.has THEN ev.body.analysis.v
                  ELSE IF ev.body.formatted_answer.has THEN ev.body.formatted_answer.v
                  ELSE NoAnswerReturned)

\* C5 as amended: the raw answer is analysis if it is present and not the
\* empty string, otherwise formatted_answer if present and not the empty
\* string, otherwise "No answer returned".
C5_NonEmptyFieldChosen ==
    SuccessBody =>
        ev.raw = (IF ev.body.analysis.has /\ ev.body.analysis.v # <<>>
                  THEN ev.body.analysis.v
                  ELSE IF ev.body.formatted_answer.has
                          /\ ev.body.formatted_answer.v # <<>>
                  THEN ev.body.formatted_answer.v
                  ELSE NoAnswerReturned)

\* Both fields are there and analysis is taken.
C5_Witness ==
    /\ SuccessBody
    /\ ev.body.analysis = Some(HtmlHi) /\ ev.body.formatted_answer = Some(PlainX)
    /\ ev.raw = HtmlHi

\* An ok response's body is an object with success false.
FailureBody == ev.op = "result" /\ ev.body.kind = "object" /\ ev.body.success = "false"

\* C6 as stated: success false ends the invocation with the error field
\* shown, "Unknown error occurred" when the field is absent, nothing written.
C6_ErrorFieldShown ==
    FailureBody =>
        /\ ev.ended /\ ~ev.written.has
        /\ ShowsError(IF ev.body.error.has THEN ev.body.error.v ELSE MsgUnknown)

\* C6 as amended: "Unknown error occurred" is shown when the field is absent
\* or the empty string.
C6_NonEmptyErrorFieldShown ==
    FailureBody =>
        /\ ev.ended /\ ~ev.written.has
        /\ ShowsError(IF ev.body.error.has /\ ev.body.error.v # <<>>
                      THEN ev.body.error.v ELSE MsgUnknown)

\* success false with the error "oops" ends the invocation.
C6_Witness ==
    /\ FailureBody /\ ev.ended
    /\ ev.body.error = Some(<<"oops">>)
    /\ ShowsError(<<"oops">>)

\* C7: every failure ends the invocation in the catch block or the
\* success-false branch with an error shown whose message is not empty: a
\* rejected await shows the rejection's message, or the fallback when that
\* is empty; a rejected fetch has no response, so no status, to show.
C7_FailuresSurface ==
    /\ (ev.op \in {"readFailed", "fetchFailed", "bodyFailed", "writeFailed"}) =>
           /\ ev.ended
              /\ ShowsError(IF ev.err # <<>> THEN ev.err ELSE MsgFallback)
           /\ ~ev.written.has
    /\ (ev.op = "fetchFailed") =>
           /\ ev.rec.response.status = 0
           /\ Head(status.textContent) # "API error: "
    /\ (ev.op = "badRequest"
           \/ (ev.op = "response"
                 /\ (ev.rec.response.status < 200 \/ ev.rec.response.status > 299)
                 /\ ev.rec.response.status # 400)) =>
           /\ ev.ended
              /\ status.className = "error" /\ status.display = "block"
    /\ (ev.ended /\ ev.shown = "error") => status.textContent # <<>>

\* A fetch rejected with an empty message ends with the fallback shown.
C7_Witness ==
    /\ ev.op = "fetchFailed" /\ ev.err = <<>> /\ ev.ended
    /\ ShowsError(MsgFallback)

\* C8: when an invocation ends with an error the solve button is enabled.
C8_ErrorLeavesButtonEnabled ==
    (ev.ended /\ ev.shown = "error") => ~solveDisabled

\* C9: at most one request is under way, and the solve button is disabled
\* while an invocation is between "loading" and its end.
C9_NoOverlap ==
    /\ \A c \in InFlight : CopiesIn(c, calls) = 1
    /\ Cardinality(InFlight) <= 1
    /\ Loading # {} => solveDisabled

\* What C10 asks of a request, for the key stored when its invocation
\* started.
HeadersFor(request, stored) ==
    /\ request.headers.contentType = <<"application/json">>
    /\ request.headers.authorization.has <=> (stored.has /\ stored.v # <<>>)
    /\ request.headers.authorization.has =>
           request.headers.authorization.v = BearerPrefix \o stored.v

\* C10: every request carries Content-Type: application/json, and carries
\* Authorization: Bearer <key> iff a non-empty key was stored when the
\* invocation started, the key being that one.
C10_Headers ==
    \A c \in BagToSet(calls) : \A k \in 1..Len(c.requests) :
        HeadersFor(c.requests[k], c.startKey)

\* A request carries the key k stored at the click, while the key j has been
\* saved since.
C10_Witness ==
    \E c \in Waiting("fetch") :
        /\ c.startKey = Some(KeyK)
        /\ c.requests[1].headers.authorization = Some(BearerPrefix \o KeyK)
        /\ storedKey = Some(KeyJ)

\* An ok response's body was an object with success true, and stripHtmlTags
\* has been applied to its raw answer.
Normalized == SuccessBody /\ ev.rec.pc = "write"

\* C11: stripHtmlTags applied to its own result gives that result again.
C11_Idempotent ==
    Normalized => stripHtmlTags(ev.rec.answer) = ev.rec.answer

\* Index k of s lies in the contents of a script block or a style block:
\* after an opening tag and before the first closing tag that follows it.
InBlock(s, k) ==
    \E rule \in {"script", "style"} : \E i \in 1..(k - 1) :
        /\ IsOpen(rule, s, i)
        /\ TagEnd(s, i + OpenLen(rule)) \in 1..(k - 1)
        /\ \E j \in (k + 1)..Len(s) : IsClose(rule, s, j)
        /\ ~\E j \in i..k : IsClose(rule, s, j)

\* The letters of s all lie in script and style blocks, and there are some.
TextOnlyInBlocks(s) ==
    /\ \E k \in 1..Len(s) : s[k] = "v"
    /\ \A k \in 1..Len(s) : s[k] = "v" => InBlock(s, k)

\* C12: when all the text of the raw answer is the contents of script and
\* style blocks, none of it is in the text written, whether the contents are
\* on one line or on several.
C12_BlocksRemoved ==
    (Normalized /\ TextOnlyInBlocks(ev.raw)) =>
        \A k \in 1..Len(ev.rec.answer) : ev.rec.answer[k] # "v"

\* s has a substring of the form <...>: a "<", one character or more that
\* are not ">", and a ">".
HasAngleBrackets(s) ==
    \E i \in 1..Len(s) : \E j \in (i + 2)..Len(s) :
        /\ s[i] = "<" /\ s[j] = ">"
        /\ \A k \in (i + 1)..(j - 1) : s[k] # ">"

\* The plain inner texts of the headings of s: the letters and line breaks
\* between a heading's opening tag and the first closing tag of a heading
\* after it, where they start and end with a letter.
HeadingTexts(s) ==
    { SubSeq(s, gt + 1, j - 1) :
        <<gt, j>> \in
          { gj \in (1..Len(s)) \X (1..Len(s)) :
              /\ gj[1] < gj[2] - 1
              /\ s[gj[1]] = ">"
              /\ \E i \in 1..gj[1] :
                    IsHeadingOpen(s, i) /\ TagEnd(s, i + 3) = gj[1]
              /\ IsHeadingClose(s, gj[2])
              /\ \A k \in (gj[1] + 1)..(gj[2] - 1) : s[k] \in {"v", NL}
              /\ s[gj[1] + 1] = "v" /\ s[gj[2] - 1] = "v" } }

\* s holds the text followed by a line of exactly 40 "=".
HasUnderlined(s, text) ==
    \E p \in 1..Len(s) :
        /\ StartsWith(s, p, text \o <<NL>> \o Repeat("=", 40))
        /\ \/ p + Len(text) + 41 = Len(s) + 1
           \/ s[p + Len(text) + 41] = NL

\* C13: the text written has no substring of the form <...>, and holds every
\* heading's inner text followed by a line of exactly 40 "=".
C13_NoTagsHeadingsUnderlined ==
    Normalized =>
        /\ ~HasAngleBrackets(ev.rec.answer)
        /\ \A text \in HeadingTexts(ev.raw) : HasUnderlined(ev.rec.answer, text)

\* An opening tag of the element name at index i of s: "<", the name, and
\* then the end of the tag or a space, so that the name is the whole name.
OpensElement(s, i, name) ==
    /\ StartsWithCI(s, i, <<"<">> \o name)
    /\ i + Len(name) + 1 <= Len(s)
    /\ s[i + Len(name) + 1] \in {">", " "}

\* s has text enclosed by a matching pair of strong tags or of b tags.
HasEmphasis(s) ==
    \E name \in { <<"b">>, <<"s","t","r","o","n","g">> } :
        \E i \in 1..Len(s) : \E j \in (i + 1)..Len(s) :
            /\ OpensElement(s, i, name)
            /\ TagEnd(s, i) \in i..(j - 1)
            /\ StartsWithCI(s, j, <<"<","/">> \o name \o <<">">>)

HasAsterisk(s) == \E k \in 1..Len(s) : s[k] = "*"

\* C14: for a raw answer without asterisks, the text written has asterisks
\* if and only if the raw answer has text enclosed by a matching pair of
\* strong tags or of b tags; no tag of another name brings any.
C14_EmphasisOnlyForStrongAndB ==
    (Normalized /\ ~HasAsterisk(ev.raw)) =>
        (HasAsterisk(ev.rec.answer) <=> HasEmphasis(ev.raw))

\* C15: the steps of an invocation come in the order read, request, write.
\* An invocation gets to wait for its write only by the step that takes an
\* ok response's body with success true, having read a question that is not
\* empty, sent its one request and read one body; the cell is written only
\* by the step that ends such a wait, which shows "success" and ends the
\* invocation, so at most once; it is the cell one column to the right of
\* the selection; and no step that shows an error writes.
C15_WriteLast ==
    [][ /\ \A c \in Waiting("write")' :
              /\ c.question.t = "str" => ~IsBlank(c.question.s)
              /\ Len(c.requests) = 1 /\ c.bodyReads = 1
              /\ c.response.status \in 200..299
              /\ c \notin Waiting("write") =>
                    /\ SuccessBody' /\ ev'.rec = c
                    /\ [c EXCEPT !.pc = "json", !.answer = <<>>] \in Waiting("json")
        /\ ev'.written.has =>
              /\ ev'.op = "written" /\ ev'.ended /\ ev'.shown = "success"
              /\ ev'.rec \in Waiting("write")
              /\ ev'.rec \notin Waiting("write")'
              /\ ev'.written.v.rowOffset = 0 /\ ev'.written.v.columnOffset = 1
              /\ ev'.written.v.values = ev'.rec.answer
        /\ (ev'.ended /\ ev'.shown = "error") => ~ev'.written.has
      ]_vars

\* The answer "Hi" is written for the question "a b".
C15_Witness ==
    /\ ev.op = "written" /\ ev.ended
    /\ ev.rec.question = StrValue(<<"a"," ","b">>)
    /\ ev.written = Some(OutputWrite(<<"H","i">>))

\* What C16 asks of the step just taken: a step that ends an invocation
\* shows exactly one of "success" and "error", and the invocation is over; a
\* step that reads a question and goes on shows "loading" and sends the
\* request; no other step touches the status; and "success" and the errors
\* that come from the service's answer are shown only by an invocation that
\* showed "loading" before, that is, has sent its request.
StatusFollowsCall ==
    /\ ev.ended =>
          /\ ev.shown \in {"success", "error"}
          /\ status.className = ev.shown /\ status.display = "block"
          /\ ev.rec \notin BagToSet(calls)
    /\ (ev.op = "read" /\ ~ev.ended) =>
          /\ status = showStatus(MsgLoading, "loading")
          /\ ev.rec \in Loading /\ Len(ev.rec.requests) = 1
    /\ (ev.op \notin {"none", "read"} /\ ~ev.ended) => ev.shown = "none"
    /\ (ev.ended /\ (ev.shown = "success"
                        \/ ev.op \in {"response", "fetchFailed", "badRequest",
                                       "result", "bodyFailed", "writeFailed"})) =>
          Len(ev.rec.requests) = 1
    /\ Loading = {} => status.className # "loading"

\* C16: the status goes from idle to "loading" to "success" or "error":
\* StatusFollowsCall holds of every step, and an invocation that has shown
\* "loading" ends, showing one of "success" and "error", when the pending
\* operations complete; none stays in "loading".
C16_LoadingEnds ==
    /\ []StatusFollowsCall
    /\ (Loading # {}) ~>
          (Loading = {} /\ ev.ended /\ ev.shown \in {"success", "error"})

\* An invocation that showed "loading" ends with "success" on a 201.
C16_Witness ==
    /\ ev.ended /\ ev.shown = "success" /\ ev.rec.response.status = 201
    /\ Len(ev.rec.requests) = 1
    /\ status = showStatus(MsgSuccess, "success")

\* A 3-second timer fires in the step.
TimerFires ==
    timers'.hide < timers.hide \/ timers'.solve < timers.solve

\* The status shows the "loading" or an error of an invocation of solveCell.
ShowsCallStatus ==
    /\ status.display = "block"
    /\ \/ status.className = "loading"
       \/ status.className = "error" /\ status.textContent # MsgEnterKey

\* C17: a timer that fires while the status shows the "loading" or the error
\* of an invocation of solveCell leaves it shown: a timer hides no other
\* message than the success message it was set for.
C17_TimerHidesOnlySuccess ==
    [][ (TimerFires /\ ShowsCallStatus) => status'.display = "block" ]_vars

\* str is not empty and has no white space at either end.
IsTrimmed(str) ==
    /\ str # <<>>
    /\ str[1] \notin WhiteSpace /\ str[Len(str)] \notin WhiteSpace

\* key is what is left of field when the white space at its ends is taken
\* off.
IsTrimOf(key, field) ==
    /\ IsTrimmed(key)
    /\ \E i \in 1..Len(field) : \E j \in i..Len(field) :
          /\ key = SubSeq(field, i, j)
          /\ IsBlank(SubSeq(field, 1, i - 1))
          /\ IsBlank(SubSeq(field, j + 1, Len(field)))

\* The stored credential is absent, or a string that is not empty and is
\* trimmed.
StoredKeyTrimmed == storedKey.has => IsTrimmed(storedKey.v)

\* C18: StoredKeyTrimmed holds always.  A step changes the stored credential
\* only if the key field is not blank, and then it is a key save (the field
\* is left alone, no step of solveCell is taken, "saved" is shown) that
\* stores the field trimmed; a step that newly shows the "enter a key" error
\* has a blank field and leaves the credential alone; a step that shows
\* "saved" and sets the timer has stored the field trimmed.
C18_StoredKeyFrame ==
    /\ []StoredKeyTrimmed
    /\ [][ /\ storedKey' # storedKey =>
               /\ ~IsBlank(keyInput)
               /\ storedKey'.has /\ IsTrimOf(storedKey'.v, keyInput)
               /\ keyInput' = keyInput /\ ev'.op = "none" /\ calls' = calls
               /\ status' = showStatus(MsgKeySaved, "success")
           /\ IsBlank(keyInput) => storedKey' = storedKey
           /\ (status'.textContent = MsgEnterKey
                  /\ status.textContent # MsgEnterKey) =>
               /\ IsBlank(keyInput)
               /\ status' = showStatus(MsgEnterKey, "error")
               /\ storedKey' = storedKey
           /\ (status' = showStatus(MsgKeySaved, "success")
                  /\ timers'.hide > timers.hide) =>
               /\ storedKey'.has /\ IsTrimOf(storedKey'.v, keyInput)
         ]_vars

\* The field " k" has been saved as the key "k" over the key "j".
C18_Witness ==
    /\ storedKey = Some(KeyK) /\ keyInput = <<" ", "k">>
    /\ status = showStatus(MsgKeySaved, "success") /\ timers.hide = 1
    /\ \E c \in BagToSet(calls) : c.startKey = Some(KeyJ)

====
